---- MODULE Spec2Model ----
(***************************************************************************)
(* A model of the comparison engine of mls_cama_comparison.py: the value   *)
(* comparator values_equal, the categorical evaluator categorical_match,   *)
(* calculate_difference, and compare_data_enhanced (setup guards, merge,   *)
(* the loop over the merged rows with its three kinds of rule).            *)
(*                                                                         *)
(* Scalars.  A cell is NULL (None / NaN), a number, or a text.             *)
(*   A number [t |-> "num", c, e] stands for the real c * 10^-2 + e *     *)
(*   10^-12: c counts hundredths, e counts units of 10^-12 and stays far   *)
(*   below 10^9 in magnitude.  The second component is what lets the       *)
(*   relative term of numpy.isclose (rtol = 10^-9) be computed exactly in  *)
(*   32-bit integers.  Arithmetic is exact (real) arithmetic; binary       *)
(*   floating-point rounding is not modelled.                              *)
(*   A text [t |-> "str", s] holds its characters as a sequence of         *)
(*   one-character strings, so that strip, lower and the substring test    *)
(*   are computed and not assumed.                                         *)
(***************************************************************************)
EXTENDS Integers, Sequences, FiniteSets, TLC

VARIABLES
    \* ---- the arguments of compare_data_enhanced and the module globals
    df_mls, df_cama, unique_id_col,
    cols_to_compare_mapping, cols_to_compare_sum, cols_to_compare_categorical,
    SKIP_ZERO_VALUES,
    \* ---- the locals of compare_data_enhanced
    pc, merged_df, matched_df, idx,
    missing_in_cama, missing_in_mls, value_mismatches, perfect_matches,
    pair_log,
    \* ---- the caller: the main block or a direct call, the result of
    \* ---- find_duplicate_ids, the tables of an earlier call
    caller, duplicates, first_result,
    \* ---- one call of a helper function (specification SpecFn)
    fn, arg1, arg2, rule, out

vars == <<df_mls, df_cama, unique_id_col, cols_to_compare_mapping,
          cols_to_compare_sum, cols_to_compare_categorical, SKIP_ZERO_VALUES,
          pc, merged_df, matched_df, idx, missing_in_cama, missing_in_mls,
          value_mismatches, perfect_matches, pair_log,
          caller, duplicates, first_result,
          fn, arg1, arg2, rule, out>>

-----------------------------------------------------------------------------
(* Scalars *)

NULL == [t |-> "null"]
\* pd.to_numeric(..., errors='raise') raising ValueError / TypeError
FAIL == [t |-> "fail"]

Num(c, e) == [t |-> "num", c |-> c, e |-> e]
Txt(s) == [t |-> "str", s |-> s]
\* a whole number / a number of hundredths
N(n) == Num(100 * n, 0)

IsNull(v) == v.t = "null"
IsNum(v) == v.t = "num"
IsStr(v) == v.t = "str"

\* pd.isna / pd.notna on a scalar
isna(v) == IsNull(v)
notna(v) == ~isna(v)

Abs(x) == IF x < 0 THEN -x ELSE x

-----------------------------------------------------------------------------
(* Text *)

UpperChars == <<"A","B","C","D","E","F","G","H","I","J","K","L","M",
                "N","O","P","Q","R","S","T","U","V","W","X","Y","Z">>
LowerChars == <<"a","b","c","d","e","f","g","h","i","j","k","l","m",
                "n","o","p","q","r","s","t","u","v","w","x","y","z">>
DigitChars == <<"0","1","2","3","4","5","6","7","8","9">>

IsSpace(ch) == ch = " "

LowerChar(ch) ==
    IF \E i \in 1..Len(UpperChars) : UpperChars[i] = ch
    THEN LowerChars[CHOOSE i \in 1..Len(UpperChars) : UpperChars[i] = ch]
    ELSE ch

\* str.lower()
lower(s) == [i \in 1..Len(s) |-> LowerChar(s[i])]

RECURSIVE lstrip(_)
lstrip(s) == IF s # <<>> /\ IsSpace(Head(s)) THEN lstrip(Tail(s)) ELSE s

RECURSIVE rstrip(_)
rstrip(s) ==
    IF s # <<>> /\ IsSpace(s[Len(s)]) THEN rstrip(SubSeq(s, 1, Len(s) - 1)) ELSE s

\* str.strip()
strip(s) == rstrip(lstrip(s))

\* the Python test  m in s  on two strings
Contains(m, s) ==
    \E i \in 0..(Len(s) - Len(m)) : SubSeq(s, i + 1, i + Len(m)) = m

IsDigit(ch) == \E i \in 1..10 : DigitChars[i] = ch
DigitVal(ch) == (CHOOSE i \in 1..10 : DigitChars[i] = ch) - 1

RECURSIVE DigitsVal(_)
DigitsVal(s) ==
    IF s = <<>> THEN 0 ELSE 10 * DigitsVal(SubSeq(s, 1, Len(s) - 1)) + DigitVal(s[Len(s)])

AllDigits(s) == \A i \in 1..Len(s) : IsDigit(s[i])

RECURSIVE NatDigits(_)
NatDigits(n) ==
    IF n < 10 THEN <<DigitChars[n + 1]>>
    ELSE NatDigits(n \div 10) \o <<DigitChars[(n % 10) + 1]>>

RECURSIVE Pad(_, _)
\* the digits of n, zero-padded on the left to width w
Pad(n, w) == IF Len(NatDigits(n)) >= w THEN NatDigits(n) ELSE <<"0">> \o Pad(n, w - 1)

RECURSIVE DropTrailingZeros(_)
DropTrailingZeros(s) ==
    IF Len(s) > 1 /\ s[Len(s)] = "0" THEN DropTrailingZeros(SubSeq(s, 1, Len(s) - 1)) ELSE s

RECURSIVE Grouped(_)
\* the thousands grouping of the format specifier ","
Grouped(n) ==
    IF n < 1000 THEN NatDigits(n)
    ELSE Grouped(n \div 1000) \o <<",">> \o Pad(n % 1000, 3)

-----------------------------------------------------------------------------
(* Numbers *)

IsNeg(n) == n.c < 0 \/ (n.c = 0 /\ n.e < 0)
IsZero(n) == n.c = 0 /\ n.e = 0
Neg(n) == Num(-n.c, -n.e)
Magnitude(n) == IF IsNeg(n) THEN Neg(n) ELSE n
Add(a, b) == Num(a.c + b.c, a.e + b.e)
Sub(a, b) == Num(a.c - b.c, a.e - b.e)

\* A non-negative number as (hundredths, hi, lo): hundredths, then the next
\* ten decimal digits as two groups of five, with the borrow carried out.
Places(m) ==
    IF m.e >= 0
    THEN [c |-> m.c, hi |-> m.e \div 100000, lo |-> m.e % 100000]
    ELSE [c |-> m.c - 1,
          hi |-> 99999 - ((-m.e - 1) \div 100000),
          lo |-> (100000 - ((-m.e) % 100000)) % 100000]

\* str(x) of a Python float (magnitudes of 10^-4 and more, which print
\* without an exponent)
PlacesStr(p) ==
    NatDigits(p.c \div 100) \o <<".">>
    \o DropTrailingZeros(Pad(p.c % 100, 2) \o Pad(p.hi, 5) \o Pad(p.lo, 5))

NumStr(n) == (IF IsNeg(n) THEN <<"-">> ELSE <<>>) \o PlacesStr(Places(Magnitude(n)))

\* f"{x:,.2f}": two decimals, thousands separators, the sign of x kept
\* (a tiny negative prints "-0.00").  |e| is far below half a hundredth,
\* so rounding returns the hundredths c.
Fixed2(a) == Grouped(a \div 100) \o <<".">> \o Pad(a % 100, 2)

Format2f(n) == (IF IsNeg(n) THEN <<"-">> ELSE <<>>) \o Fixed2(Abs(n.c))

\* The parser behind pd.to_numeric on a str: surrounding blanks are skipped,
\* an optional sign, digits, and an optional fraction (hundredths at most
\* in the texts of this model).  The empty string converts to NaN without
\* an error; anything else that does not parse is an error.
ParseParts(whole, frac) ==
    IF /\ AllDigits(whole) /\ AllDigits(frac)
       /\ Len(whole) + Len(frac) > 0
       /\ Len(frac) <= 2
    THEN Num(100 * DigitsVal(whole)
             + (IF Len(frac) = 0 THEN 0
                ELSE IF Len(frac) = 1 THEN 10 * DigitsVal(frac)
                ELSE DigitsVal(frac)), 0)
    ELSE FAIL

\* the place of the first "." of u, or Len(u) + 1
DotIndex(u) ==
    IF \E i \in 1..Len(u) : u[i] = "."
    THEN CHOOSE i \in 1..Len(u) : u[i] = "." /\ \A j \in 1..(i - 1) : u[j] # "."
    ELSE Len(u) + 1

SplitAt(u, dot) == ParseParts(SubSeq(u, 1, dot - 1), SubSeq(u, dot + 1, Len(u)))

ParseUnsigned(u) == SplitAt(u, DotIndex(u))

Signed(neg, r) == IF neg /\ r # FAIL THEN Neg(r) ELSE r

ParseStripped(b) ==
    Signed(b # <<>> /\ Head(b) = "-",
           ParseUnsigned(IF b # <<>> /\ Head(b) = "-" THEN Tail(b) ELSE b))

ParseText(s) == IF s = <<>> THEN NULL ELSE ParseStripped(strip(s))

\* pd.to_numeric(v, errors='raise') on a scalar: FAIL stands for the raise
to_numeric_raise(v) == IF IsStr(v) THEN ParseText(v.s) ELSE v

\* pd.to_numeric(v, errors='coerce') on a scalar
Coerced(r) == IF r = FAIL THEN NULL ELSE r

to_numeric_coerce(v) == Coerced(to_numeric_raise(v))

\* str(v) of a cell
str(v) ==
    IF IsStr(v) THEN v.s
    ELSE IF IsNum(v) THEN NumStr(v)
    ELSE <<"n","a","n">>

-----------------------------------------------------------------------------
(* Value Comparator *)

\* NUMERIC_TOLERANCE = 0.01, in hundredths
NUMERIC_TOLERANCE == 1
\* rtol = 1e-9, as its inverse
RtolInverse == 1000000000

\* floor(rtol * |b|) in units of 10^-12: |b| = c * 10^10 + e of those units
\* (10^10 is written as 100000 * 100000, and divided one factor at a time)
RelativeOf(m) ==
    (100000 \div (RtolInverse \div 100000)) * m.c + (m.e \div RtolInverse)

RelativeTerm(b) == RelativeOf(Magnitude(b))

\* |a - b| in units of 10^-12 is c * 10^10 + low
AbsOf(d) ==
    [c |-> Abs(d.c),
     low |-> IF d.c > 0 THEN d.e ELSE IF d.c < 0 THEN -d.e ELSE Abs(d.e)]

AbsDiff(a, b) == AbsOf(Sub(a, b))

\* np.isclose(a, b, equal_nan=False, rtol=1e-9, atol=NUMERIC_TOLERANCE) on
\* two finite numbers:  |a - b| <= atol + rtol * |b|
Within(d, relative) ==
    d.c - NUMERIC_TOLERANCE <= ((relative - d.low) \div 100000) \div 100000

isclose(a, b) == Within(AbsDiff(a, b), RelativeTerm(b))

\* the string of line 188 left as it is, neither trimmed nor folded
Unfolded(v) == IF notna(v) THEN str(v) ELSE <<>>

\* str(v).strip().lower() if pd.notna(v) else ''
Folded(v) == IF notna(v) THEN lower(strip(str(v))) ELSE <<>>

\* lines 181-186, on the two converted values
NumbersEqual(num1, num2) ==
    IF isna(num1) /\ isna(num2) THEN TRUE
    ELSE IF isna(num1) # isna(num2) THEN FALSE
    ELSE isclose(num1, num2)

\* lines 177-190: the except branch when a conversion raised
Compare(val1, val2, num1, num2) ==
    IF num1 = FAIL \/ num2 = FAIL THEN Folded(val1) = Folded(val2)
    ELSE NumbersEqual(num1, num2)

values_equal(val1, val2) ==
    Compare(val1, val2, to_numeric_raise(val1), to_numeric_raise(val2))

NotAvailable == <<"N","/","A">>
TextDifference == <<"T","e","x","t"," ","d","i","f","f","e","r","e","n","c","e">>

\* the subtraction of line 606 with its operands exchanged
DifferenceReversed(num1, num2) ==
    IF num1 = FAIL \/ num2 = FAIL THEN TextDifference
    ELSE IF isna(num1) \/ isna(num2) THEN NotAvailable
    ELSE Format2f(Sub(num2, num1))

\* lines 600-610, on the two converted values
Difference(num1, num2) ==
    IF num1 = FAIL \/ num2 = FAIL THEN TextDifference
    ELSE IF isna(num1) \/ isna(num2) THEN NotAvailable
    ELSE Format2f(Sub(num1, num2))

calculate_difference(val1, val2) ==
    Difference(to_numeric_raise(val1), to_numeric_raise(val2))

-----------------------------------------------------------------------------
(* Categorical Rule Evaluator *)

\* the text searched: the side-A value as a trimmed string, lower-cased
\* unless the rule is case sensitive
Cased(text, case_sensitive) == IF case_sensitive THEN text ELSE lower(text)

SearchText(mls_val, mapping) ==
    Cased(IF notna(mls_val) THEN strip(str(mls_val)) ELSE <<>>, mapping.case_sensitive)

SearchMarker(mapping) == Cased(mapping.mls_check_contains, mapping.case_sensitive)

text_found(mls_val, mapping) == Contains(SearchMarker(mapping), SearchText(mls_val, mapping))

expected_cama(mls_val, mapping) ==
    IF text_found(mls_val, mapping) THEN mapping.cama_expected_if_true
    ELSE mapping.cama_expected_if_false

\* errors='coerce' never raises, so the except branch (the string
\* comparison of line 236) is never taken
\* lines 229-234, on the two coerced values
CoercedEqual(cama_numeric, expected_numeric) ==
    IF isna(cama_numeric) /\ isna(expected_numeric) THEN TRUE
    ELSE IF isna(cama_numeric) \/ isna(expected_numeric) THEN FALSE
    ELSE isclose(cama_numeric, expected_numeric)

categorical_match(mls_val, cama_val, mapping) ==
    CoercedEqual(to_numeric_coerce(cama_val),
                 to_numeric_coerce(expected_cama(mls_val, mapping)))

-----------------------------------------------------------------------------
(* Data frames *)
(* A frame is [t |-> "frame", columns, rows]: rows is a sequence of        *)
(* functions from the column names to cells.  NoFrame is None.  The two    *)
(* frames share no column name (the note at the merge), so the merge adds  *)
(* no suffixes; the pass-through columns ('Listing #', 'SALEKEY', the      *)
(* address and the Zillow link), which no rule reads, are left out.        *)

NoFrame == [t |-> "none"]
Frame(columns, rows) == [t |-> "frame", columns |-> columns, rows |-> rows]
IsFrame(df) == df.t = "frame"

\* row.get(col) of a merged row
get(row, col) == IF col \in DOMAIN row THEN row[col] ELSE NULL

\* DataFrame.rename(columns={old: new}) on one row
rename(row, old, new) ==
    [c \in ((DOMAIN row) \ {old}) \cup {new} |-> IF c = new THEN row[old] ELSE row[c]]

\* the keys are numbers; the order of two keys
KeyLess(a, b) == a.c < b.c \/ (a.c = b.c /\ a.e < b.e)

RECURSIVE SortKeys(_)
SortKeys(S) ==
    IF S = {} THEN <<>>
    ELSE LET m == CHOOSE x \in S : \A y \in S : y = x \/ KeyLess(x, y)
         IN  <<m>> \o SortKeys(S \ {m})

RECURSIVE Concat(_)
\* the concatenation of a sequence of sequences
Concat(ss) == IF ss = <<>> THEN <<>> ELSE Head(ss) \o Concat(Tail(ss))

KeysOf(rows, key) == {rows[i][key] : i \in 1..Len(rows)}

RECURSIVE RowsWithKey(_, _, _)
RowsWithKey(rows, key, k) ==
    IF rows = <<>> THEN <<>>
    ELSE (IF Head(rows)[key] = k THEN <<Head(rows)>> ELSE <<>>)
         \o RowsWithKey(Tail(rows), key, k)

\* one row of the merge: the cells of the left row, of the right row, NaN
\* for the columns of an absent side
Joined(columns, left, right) ==
    [c \in columns |->
        IF c \in DOMAIN left THEN left[c]
        ELSE IF c \in DOMAIN right THEN right[c]
        ELSE NULL]

Indicated(row, status) ==
    [c \in (DOMAIN row) \cup {"_merge"} |-> IF c = "_merge" THEN status ELSE row[c]]

\* every left row with the first right row only
PairsFirst(columns, ls, rs) ==
    Concat([i \in 1..Len(ls) |->
              [j \in 1..(IF rs = <<>> THEN 0 ELSE 1) |-> Joined(columns, ls[i], rs[1])]])

\* every combination of a left row and a right row, left-major
Pairs(columns, ls, rs) ==
    Concat([i \in 1..Len(ls) |-> [j \in 1..Len(rs) |-> Joined(columns, ls[i], rs[j])]])

\* pd.merge(left, right, on=key, how='inner'): in the order of the left rows
merge_inner(left, right, key) ==
    LET columns == left.columns \cup right.columns
    IN  Concat([i \in 1..Len(left.rows) |->
                  Pairs(columns, <<left.rows[i]>>,
                        RowsWithKey(right.rows, key, left.rows[i][key]))])

\* the rows of key k in the outer merge
OuterRows(left, right, key, k) ==
    LET columns == left.columns \cup right.columns
        ls == RowsWithKey(left.rows, key, k)
        rs == RowsWithKey(right.rows, key, k)
        none == [c \in {} |-> NULL]
    IN  IF rs = <<>>
        THEN [i \in 1..Len(ls) |-> Indicated(Joined(columns, ls[i], none), "left_only")]
        ELSE IF ls = <<>>
        THEN [j \in 1..Len(rs) |-> Indicated(Joined(columns, none, rs[j]), "right_only")]
        ELSE LET ps == Pairs(columns, ls, rs)
             IN  [i \in 1..Len(ps) |-> Indicated(ps[i], "both")]

\* a merge that keeps only the keys of the left frame (how='left')
merge_left(left, right, key) ==
    LET ks == SortKeys(KeysOf(left.rows, key))
    IN  Concat([n \in 1..Len(ks) |-> OuterRows(left, right, key, ks[n])])

\* pd.merge(left, right, on=key, how='outer', indicator=True): the keys in
\* sorted order, the rows of a key left-major
merge_outer(left, right, key) ==
    LET ks == SortKeys(KeysOf(left.rows, key) \cup KeysOf(right.rows, key))
    IN  Concat([n \in 1..Len(ks) |-> OuterRows(left, right, key, ks[n])])

-----------------------------------------------------------------------------
(* The rules of compare_data_enhanced, one matched row at a time *)

\* pd.isna(v) or (isinstance(v, str) and v.strip() == '')
is_blank(v) == isna(v) \/ (IsStr(v) /\ strip(v.s) = <<>>)

\* pd.notna(n) and n == 0, on a coerced number
is_zero(n) == notna(n) /\ IsZero(n)

RECURSIVE join(_, _)
\* sep.join(names)
join(sep, names) ==
    IF names = <<>> THEN ""
    ELSE IF Len(names) = 1 THEN names[1]
    ELSE names[1] \o sep \o join(sep, Tail(names))

\* the locals of one iteration
NoFindings == [record_mismatches |-> <<>>, fields_compared |-> <<>>]

\* a field left out of fields_compared
NotCompared(acc, field) == acc

\* fields_compared.append(field)
Compared(acc, field) == [acc EXCEPT !.fields_compared = Append(@, field)]
\* an entry put in front of the list
MismatchFirst(acc, entry) == [acc EXCEPT !.record_mismatches = <<entry>> \o @]

\* record_mismatches.append(entry)
Mismatch(acc, entry) == [acc EXCEPT !.record_mismatches = Append(@, entry)]

\* one entry of record_mismatches (a column the entry does not set is NaN
\* in the data frame built from the list)
Discrepancy(record_id, field_mls, field_cama, mls_val, cama_val, difference, expected, match_rule) ==
    [Parcel_ID |-> record_id, Field_MLS |-> field_mls, Field_CAMA |-> field_cama,
     MLS_Value |-> mls_val, CAMA_Value |-> cama_val, Difference |-> difference,
     Expected_CAMA_Value |-> expected, Match_Rule |-> match_rule]

\* lines 355-362
direct_zero_skip(skip_zero, mls_val, cama_val) ==
    /\ skip_zero
    /\ \/ is_zero(to_numeric_coerce(mls_val))
       \/ is_zero(to_numeric_coerce(cama_val))

\* lines 344-394, on the two cells of the mapping
direct_cells(record_id, mapping, skip_zero, acc, mls_val, cama_val) ==
    IF is_blank(mls_val) \/ is_blank(cama_val) THEN acc
    ELSE IF direct_zero_skip(skip_zero, mls_val, cama_val)
    THEN Compared(acc, mapping.mls_col)
    ELSE IF ~values_equal(mls_val, cama_val)
    THEN Mismatch(Compared(acc, mapping.mls_col),
             Discrepancy(record_id, mapping.mls_col, mapping.cama_col,
                         mls_val, cama_val,
                         Txt(calculate_difference(mls_val, cama_val)),
                         NULL, NULL))
    ELSE Compared(acc, mapping.mls_col)

\* lines 329-394: one 1-to-1 mapping on one matched row
direct_rule(row, record_id, mapping, skip_zero, acc) ==
    IF mapping.mls_col \notin DOMAIN row \/ mapping.cama_col \notin DOMAIN row
    THEN acc
    ELSE direct_cells(record_id, mapping, skip_zero, acc,
                      get(row, mapping.mls_col), get(row, mapping.cama_col))

\* an accumulation that keeps the last cell instead of adding it
AddCellLast(sum, x) == IF isna(sum) \/ isna(x) THEN NULL ELSE x

\* cama_sum += x, where a NaN makes the sum NaN
AddCell(sum, x) == IF isna(sum) \/ isna(x) THEN NULL ELSE Add(sum, x)

RECURSIVE SumCells(_, _, _)
\* lines 423-432: the sum of the cells that are not NaN, from cama_sum = 0
SumCells(row, cols, sum) ==
    IF cols = <<>> THEN sum
    ELSE SumCells(row, Tail(cols),
                  IF notna(get(row, Head(cols)))
                  THEN AddCell(sum, to_numeric_coerce(get(row, Head(cols))))
                  ELSE sum)

all_cama_blank(row, cols) == \A i \in 1..Len(cols) : isna(get(row, cols[i]))

\* lines 442-448
sum_zero_skip(skip_zero, mls_val, cama_sum) ==
    /\ skip_zero
    /\ \/ is_zero(to_numeric_coerce(mls_val))
       \/ is_zero(cama_sum)

\* lines 417-481, on the side-A cell and the sum
sum_cells(row, record_id, mapping, skip_zero, acc, mls_val, cama_sum) ==
    IF is_blank(mls_val) THEN acc
    ELSE IF all_cama_blank(row, mapping.cama_cols) THEN acc
    ELSE IF sum_zero_skip(skip_zero, mls_val, cama_sum)
    THEN Compared(acc, mapping.mls_col)
    ELSE IF ~values_equal(mls_val, cama_sum)
    THEN Mismatch(Compared(acc, mapping.mls_col),
             Discrepancy(record_id, mapping.mls_col,
                         "SUM(" \o join(", ", mapping.cama_cols) \o ")",
                         mls_val, cama_sum,
                         Txt(calculate_difference(mls_val, cama_sum)),
                         NULL, NULL))
    ELSE Compared(acc, mapping.mls_col)

\* a sum rule that is skipped only when every side-B column is absent
sum_rule_any_column(row, record_id, mapping, skip_zero, acc) ==
    IF mapping.mls_col \notin DOMAIN row THEN acc
    ELSE IF \A i \in 1..Len(mapping.cama_cols) : mapping.cama_cols[i] \notin DOMAIN row
    THEN acc
    ELSE sum_cells(row, record_id, mapping, skip_zero, acc,
                   get(row, mapping.mls_col),
                   SumCells(row, mapping.cama_cols, N(0)))

\* lines 398-481: one sum mapping on one matched row
sum_rule(row, record_id, mapping, skip_zero, acc) ==
    IF mapping.mls_col \notin DOMAIN row THEN acc
    ELSE IF \E i \in 1..Len(mapping.cama_cols) : mapping.cama_cols[i] \notin DOMAIN row
    THEN acc
    ELSE sum_cells(row, record_id, mapping, skip_zero, acc,
                   get(row, mapping.mls_col),
                   SumCells(row, mapping.cama_cols, N(0)))

\* the parts of the f-string of line 559
match_rule(mapping) ==
    [t |-> "rule", text |-> mapping.mls_check_contains,
     mls_col |-> mapping.mls_col, cama_col |-> mapping.cama_col,
     if_true |-> mapping.cama_expected_if_true,
     if_false |-> mapping.cama_expected_if_false]

\* lines 503-561, on the two cells of the mapping
categorical_cells(record_id, mapping, acc, mls_val, cama_val) ==
    IF is_blank(mls_val) THEN acc
    ELSE IF is_blank(cama_val) THEN acc
    ELSE IF ~categorical_match(mls_val, cama_val, mapping)
    THEN Mismatch(Compared(acc, mapping.mls_col),
             Discrepancy(record_id, mapping.mls_col, mapping.cama_col,
                         mls_val, cama_val, NULL,
                         expected_cama(mls_val, mapping), match_rule(mapping)))
    ELSE Compared(acc, mapping.mls_col)

\* lines 485-561: one categorical mapping on one matched row
categorical_rule(row, record_id, mapping, acc) ==
    IF mapping.mls_col \notin DOMAIN row THEN acc
    ELSE IF mapping.cama_col \notin DOMAIN row THEN acc
    ELSE categorical_cells(record_id, mapping, acc,
                           get(row, mapping.mls_col), get(row, mapping.cama_col))

RECURSIVE direct_rules(_, _, _, _, _)
direct_rules(row, record_id, mappings, skip_zero, acc) ==
    IF mappings = <<>> THEN acc
    ELSE direct_rules(row, record_id, Tail(mappings), skip_zero,
                      direct_rule(row, record_id, Head(mappings), skip_zero, acc))

RECURSIVE sum_rules(_, _, _, _, _)
sum_rules(row, record_id, mappings, skip_zero, acc) ==
    IF mappings = <<>> THEN acc
    ELSE sum_rules(row, record_id, Tail(mappings), skip_zero,
                   sum_rule(row, record_id, Head(mappings), skip_zero, acc))

RECURSIVE categorical_rules(_, _, _, _)
categorical_rules(row, record_id, mappings, acc) ==
    IF mappings = <<>> THEN acc
    ELSE categorical_rules(row, record_id, Tail(mappings),
                           categorical_rule(row, record_id, Head(mappings), acc))

\* lines 325-561: record_mismatches and fields_compared of one matched row
compare_row(row, record_id, directs, sums, categoricals, skip_zero) ==
    categorical_rules(row, record_id, categoricals,
        sum_rules(row, record_id, sums, skip_zero,
            direct_rules(row, record_id, directs, skip_zero, NoFindings)))

\* an entry that counts one field however many were compared
PerfectMatchOneField(record_id, fields_compared) ==
    [Parcel_ID |-> record_id,
     Fields_Compared |-> 1,
     Fields_List |-> join(", ", fields_compared)]

\* lines 565-578: the entry of perfect_matches
PerfectMatch(record_id, fields_compared) ==
    [Parcel_ID |-> record_id,
     Fields_Compared |-> Len(fields_compared),
     Fields_List |-> join(", ", fields_compared)]

-----------------------------------------------------------------------------
(* Configuration (lines 21-54) *)

UNIQUE_ID_COLUMN == [mls_col |-> "Parcel Number", cama_col |-> "PARID"]

AreaRule == [mls_col |-> "Above Grade Finished Area", cama_col |-> "SFLA"]
BedroomsRule == [mls_col |-> "Bedrooms Total", cama_col |-> "RMBED"]
COLUMNS_TO_COMPARE == <<AreaRule, BedroomsRule>>

BelowGradeRule ==
    [mls_col |-> "Below Grade Finished Area",
     cama_cols |-> <<"RECROMAREA", "FINBSMTAREA", "UFEATAREA">>]
COLUMNS_TO_COMPARE_SUM == <<BelowGradeRule>>

CentralAir == <<"C","e","n","t","r","a","l"," ","A","i","r">>
CoolingRule(text, if_true, if_false, case_sensitive) ==
    [mls_col |-> "Cooling", cama_col |-> "HEAT",
     mls_check_contains |-> text,
     cama_expected_if_true |-> if_true,
     cama_expected_if_false |-> if_false,
     case_sensitive |-> case_sensitive]
COLUMNS_TO_COMPARE_CATEGORICAL == <<CoolingRule(CentralAir, N(1), N(0), FALSE)>>

-----------------------------------------------------------------------------
(* Inputs *)

\* the largest number of rows of a frame in the inputs with several rows
MaxRows == 2

MlsColumns ==
    {"Parcel Number", "Above Grade Finished Area", "Bedrooms Total",
     "Below Grade Finished Area", "Cooling"}
CamaColumns ==
    {"PARID", "SFLA", "RMBED", "RECROMAREA", "FINBSMTAREA", "UFEATAREA", "HEAT"}

\* a row over the columns: the key, the given cells, NaN elsewhere
RowOf(columns, key_col, key, cells) ==
    [c \in columns |->
        IF c = key_col THEN key
        ELSE IF c \in DOMAIN cells THEN cells[c]
        ELSE NULL]

MlsRow(key, cells) == RowOf(MlsColumns, "Parcel Number", key, cells)
CamaRow(key, cells) == RowOf(CamaColumns, "PARID", key, cells)

SeqsUpTo(S, n) == UNION {[1..k -> S] : k \in 0..n}

Input(mls, cama, uid, directs, sums, categoricals, skip_zero) ==
    [df_mls |-> mls, df_cama |-> cama, unique_id_col |-> uid,
     cols_to_compare_mapping |-> directs, cols_to_compare_sum |-> sums,
     cols_to_compare_categorical |-> categoricals, SKIP_ZERO_VALUES |-> skip_zero]

\* one row on each side, under the configuration of the source
OnePair(mls_key, mls_cells, cama_key, cama_cells, skip_zero) ==
    Input(Frame(MlsColumns, <<MlsRow(mls_key, mls_cells)>>),
          Frame(CamaColumns, <<CamaRow(cama_key, cama_cells)>>),
          UNIQUE_ID_COLUMN, COLUMNS_TO_COMPARE, COLUMNS_TO_COMPARE_SUM,
          COLUMNS_TO_COMPARE_CATEGORICAL, skip_zero)

Keys == {N(1), N(2), N(3)}

Abc == <<"a","b","c">>
AbcUpper == <<"A","B","C"," ">>

\* frames of up to MaxRows rows, keys repeated or not, one compared field
MergeInputs ==
    LET mls_rows == {MlsRow(k, "Above Grade Finished Area" :> N(5)) : k \in Keys}
        cama_rows == {CamaRow(k, "SFLA" :> v) : k \in Keys, v \in {N(5), N(7)}}
    IN  {Input(Frame(MlsColumns, a), Frame(CamaColumns, b), UNIQUE_ID_COLUMN,
               COLUMNS_TO_COMPARE, COLUMNS_TO_COMPARE_SUM,
               COLUMNS_TO_COMPARE_CATEGORICAL, TRUE) :
            a \in SeqsUpTo(mls_rows, MaxRows), b \in SeqsUpTo(cama_rows, MaxRows)}

DirectCells ==
    {NULL, N(0), N(5), Num(501, 0), N(7), N(1234), Txt(<<>>), Txt(<<" ">>),
     Txt(<<"5">>), Txt(<<"0">>), Txt(Abc), Txt(AbcUpper)}

\* one matched pair, the cells of the first 1-to-1 rule varied
DirectInputs ==
    {OnePair(N(1), "Above Grade Finished Area" :> a @@ "Bedrooms Total" :> N(3),
             N(1), "SFLA" :> b @@ "RMBED" :> r, z) :
        a \in DirectCells, b \in DirectCells, r \in {N(3), N(4)}, z \in BOOLEAN}

SumCellsA == {NULL, N(0), N(500), N(350), Txt(Abc)}
SumCellsB == {NULL, N(0), N(200), N(150), Txt(<<>>), Txt(Abc)}

\* one matched pair, the cells of the sum rule varied
SumInputs ==
    {OnePair(N(1), "Below Grade Finished Area" :> a,
             N(1), "RECROMAREA" :> b1 @@ "FINBSMTAREA" :> b2 @@ "UFEATAREA" :> b3, z) :
        a \in SumCellsA, b1 \in SumCellsB, b2 \in SumCellsB, b3 \in SumCellsB,
        z \in BOOLEAN}

CoolingCells ==
    {NULL, Txt(<<>>),
     Txt(<<"C","e","n","t","r","a","l"," ","A","i","r"," ","a","n","d"," ",
           "H","e","a","t"," ","P","u","m","p">>),
     Txt(<<" ","c","e","n","t","r","a","l"," ","a","i","r">>),
     Txt(<<"H","e","a","t"," ","P","u","m","p">>)}
HeatCells ==
    {NULL, Txt(<<" ">>), N(0), N(1), Txt(<<"1">>), Txt(<<"Y","e","s">>),
     Txt(<<"N","o">>)}
CoolingRules ==
    {CoolingRule(m, e[1], e[2], cs) :
        m \in {CentralAir, <<>>},
        e \in {<<N(1), N(0)>>, <<Txt(<<"Y","e","s">>), Txt(<<"N","o">>)>>},
        cs \in BOOLEAN}

\* one matched pair, the cells and the rule of the categorical comparison
\* varied
CategoricalInputs ==
    {Input(Frame(MlsColumns, <<MlsRow(N(1), "Cooling" :> a)>>),
           Frame(CamaColumns, <<CamaRow(N(1), "HEAT" :> b)>>),
           UNIQUE_ID_COLUMN, COLUMNS_TO_COMPARE, COLUMNS_TO_COMPARE_SUM, <<r>>, TRUE) :
        a \in CoolingCells, b \in HeatCells, r \in CoolingRules}

\* one pair of rows, every kind of rule with cells to compare
MixedInputs ==
    {OnePair(N(1), "Above Grade Finished Area" :> N(5)
                   @@ "Below Grade Finished Area" :> N(500)
                   @@ "Cooling" :> Txt(CentralAir),
             k, "SFLA" :> b @@ "RECROMAREA" :> s @@ "HEAT" :> h, z) :
        k \in {N(1), N(2)}, b \in {NULL, N(0), N(5), N(7)}, s \in {NULL, N(500), N(350)},
        h \in {NULL, N(0), N(1)}, z \in BOOLEAN}

\* inputs the setup guards of lines 255-279 reject, next to ones they accept
GuardInputs ==
    LET mls == Frame(MlsColumns, <<MlsRow(N(1), "Above Grade Finished Area" :> N(5))>>)
        cama == Frame(CamaColumns, <<CamaRow(N(1), "SFLA" :> N(7)),
                                     CamaRow(N(2), "SFLA" :> N(5))>>)
        drop(df, col) ==
            Frame(df.columns \ {col},
                  [i \in 1..Len(df.rows) |->
                      [c \in df.columns \ {col} |-> df.rows[i][c]]])
    IN  {Input(a, b, u, d, COLUMNS_TO_COMPARE_SUM, COLUMNS_TO_COMPARE_CATEGORICAL, TRUE) :
            a \in {mls, NoFrame, drop(mls, "Parcel Number")},
            b \in {cama, NoFrame, drop(cama, "PARID")},
            u \in {UNIQUE_ID_COLUMN, [mls_col |-> "Parcel Number"],
                   [cama_col |-> "PARID"]},
            d \in {COLUMNS_TO_COMPARE, <<>>}}

\* a frame without some of its columns
Drop(df, cols) ==
    Frame(df.columns \ cols,
          [i \in 1..Len(df.rows) |-> [c \in df.columns \ cols |-> df.rows[i][c]]])

\* one pair of rows with a cell for every rule, some compared columns
\* absent from the frames
SchemaInputs ==
    {Input(Drop(Frame(MlsColumns,
                      <<MlsRow(N(1), "Above Grade Finished Area" :> N(5)
                                     @@ "Bedrooms Total" :> N(3)
                                     @@ "Below Grade Finished Area" :> N(500)
                                     @@ "Cooling" :> Txt(CentralAir))>>), a),
           Drop(Frame(CamaColumns,
                      <<CamaRow(N(1), "SFLA" :> v @@ "RMBED" :> N(4)
                                      @@ "RECROMAREA" :> N(200)
                                      @@ "FINBSMTAREA" :> N(150)
                                      @@ "HEAT" :> N(0))>>), b),
           UNIQUE_ID_COLUMN, COLUMNS_TO_COMPARE, COLUMNS_TO_COMPARE_SUM,
           COLUMNS_TO_COMPARE_CATEGORICAL, z) :
        a \in SUBSET {"Bedrooms Total", "Below Grade Finished Area", "Cooling"},
        b \in SUBSET {"RMBED", "FINBSMTAREA", "HEAT"},
        v \in {N(5), N(7)}, z \in BOOLEAN}

Inputs ==
    MergeInputs \cup DirectInputs \cup SumInputs \cup CategoricalInputs
    \cup MixedInputs \cup GuardInputs \cup SchemaInputs

-----------------------------------------------------------------------------
(* compare_data_enhanced *)

NoCall == [done |-> FALSE]
Returned(val) == [done |-> TRUE, val |-> val]

Init ==
    /\ \E in \in Inputs :
          /\ df_mls = in.df_mls
          /\ df_cama = in.df_cama
          /\ unique_id_col = in.unique_id_col
          /\ cols_to_compare_mapping = in.cols_to_compare_mapping
          /\ cols_to_compare_sum = in.cols_to_compare_sum
          /\ cols_to_compare_categorical = in.cols_to_compare_categorical
          /\ SKIP_ZERO_VALUES = in.SKIP_ZERO_VALUES
    /\ \/ caller = "main" /\ pc = "main"
       \/ caller = "direct" /\ pc = "start"
    /\ duplicates = NoCall
    /\ first_result = NoCall
    /\ merged_df = <<>>
    /\ matched_df = <<>>
    /\ idx = 0
    /\ missing_in_cama = <<>>
    /\ missing_in_mls = <<>>
    /\ value_mismatches = <<>>
    /\ perfect_matches = <<>>
    /\ pair_log = <<>>
    /\ fn = "none" /\ arg1 = NULL /\ arg2 = NULL /\ rule = NULL /\ out = NoCall

inputs == <<df_mls, df_cama, unique_id_col, cols_to_compare_mapping,
            cols_to_compare_sum, cols_to_compare_categorical, SKIP_ZERO_VALUES>>
call == <<fn, arg1, arg2, rule, out>>
session == <<caller, duplicates, first_result>>

\* lines 255-267: a frame is None, the 1-to-1 mapping is empty, or the key
\* mapping lacks a name
BadArguments(mls, cama, uid, directs) ==
    \/ ~IsFrame(mls) \/ ~IsFrame(cama)
    \/ directs = <<>>
    \/ "mls_col" \notin DOMAIN uid \/ "cama_col" \notin DOMAIN uid

\* a check of the MLS key column alone
MlsKeyColumnMissing(mls, cama, uid) == uid.mls_col \notin mls.columns

\* lines 270-279: a key column is not a column of its frame
KeyColumnMissing(mls, cama, uid) ==
    \/ uid.mls_col \notin mls.columns
    \/ uid.cama_col \notin cama.columns

\* lines 255-279: the early returns
Rejected(mls, cama, uid, directs) ==
    IF BadArguments(mls, cama, uid, directs) THEN TRUE
    ELSE KeyColumnMissing(mls, cama, uid)

\* lines 255-279: an early return of five empty frames
Reject ==
    /\ pc = "start"
    /\ Rejected(df_mls, df_cama, unique_id_col, cols_to_compare_mapping)
    /\ pc' = "rejected"
    /\ missing_in_cama' = <<>>
    /\ missing_in_mls' = <<>>
    /\ value_mismatches' = <<>>
    /\ matched_df' = <<>>
    /\ perfect_matches' = <<>>
    /\ UNCHANGED <<inputs, merged_df, idx, pair_log, call, session>>

\* df_mls.copy().rename(columns={mls_col: cama_col})
df_mls_renamed ==
    Frame((df_mls.columns \ {unique_id_col.mls_col}) \cup {unique_id_col.cama_col},
          [i \in 1..Len(df_mls.rows) |->
              rename(df_mls.rows[i], unique_id_col.mls_col, unique_id_col.cama_col)])

\* a rename applied to the caller's frame itself
RenamedInPlace(df, renamed) == IF IsFrame(renamed) THEN renamed ELSE df

\* lines 271-272: the rename is applied to a copy, the caller's frame is
\* as it was
AfterRename(df, renamed) == df

\* lines 269-291: the two merges and the empty result lists.  A merge on a
\* key that is no column raises KeyError.
Merge ==
    /\ pc = "start"
    /\ ~Rejected(df_mls, df_cama, unique_id_col, cols_to_compare_mapping)
    /\ IF IsFrame(df_mls) /\ IsFrame(df_cama)
          /\ {"mls_col", "cama_col"} \subseteq DOMAIN unique_id_col
          /\ unique_id_col.mls_col \in df_mls.columns
          /\ unique_id_col.cama_col \in df_cama.columns
       THEN /\ matched_df' = merge_inner(df_mls_renamed, df_cama, unique_id_col.cama_col)
            /\ merged_df' = merge_outer(df_mls_renamed, df_cama, unique_id_col.cama_col)
            /\ idx' = 1
            /\ pc' = "loop"
       ELSE /\ pc' = "raised"
            /\ UNCHANGED <<matched_df, merged_df, idx>>
    /\ missing_in_cama' = <<>>
    /\ missing_in_mls' = <<>>
    /\ value_mismatches' = <<>>
    /\ perfect_matches' = <<>>
    /\ df_mls' = AfterRename(df_mls, df_mls_renamed)
    /\ UNCHANGED <<df_cama, unique_id_col, cols_to_compare_mapping,
                   cols_to_compare_sum, cols_to_compare_categorical,
                   SKIP_ZERO_VALUES, pair_log, call, session>>

InLoop == pc = "loop" /\ idx <= Len(merged_df)
row == merged_df[idx]
record_id == get(row, unique_id_col.cama_col)

\* lines 298-307
LeftOnly ==
    /\ InLoop
    /\ row["_merge"] = "left_only"
    /\ missing_in_cama' = Append(missing_in_cama, [Parcel_ID |-> record_id])
    /\ idx' = idx + 1
    /\ UNCHANGED <<inputs, pc, merged_df, matched_df, missing_in_mls,
                   value_mismatches, perfect_matches, pair_log, call, session>>

\* lines 309-310
RightOnly ==
    /\ InLoop
    /\ row["_merge"] = "right_only"
    /\ missing_in_mls' = Append(missing_in_mls, [Parcel_ID |-> record_id])
    /\ idx' = idx + 1
    /\ UNCHANGED <<inputs, pc, merged_df, matched_df, missing_in_cama,
                   value_mismatches, perfect_matches, pair_log, call, session>>

\* a classification whose perfect-match test ignores record_mismatches
ClassifyCompared(id, found) ==
    /\ perfect_matches' =
          IF found.fields_compared # <<>>
          THEN Append(perfect_matches, PerfectMatch(id, found.fields_compared))
          ELSE perfect_matches
    /\ value_mismatches' = value_mismatches \o found.record_mismatches
    /\ pair_log' = Append(pair_log,
          [Parcel_ID |-> id, row |-> row,
           fields_compared |-> found.fields_compared,
           record_mismatches |-> found.record_mismatches])

\* lines 563-580: the classification of a matched row from its locals
Classify(id, found) ==
    /\ perfect_matches' =
          IF found.record_mismatches = <<>> /\ found.fields_compared # <<>>
          THEN Append(perfect_matches, PerfectMatch(id, found.fields_compared))
          ELSE perfect_matches
    /\ value_mismatches' = value_mismatches \o found.record_mismatches
    /\ pair_log' = Append(pair_log,
          [Parcel_ID |-> id, row |-> row,
           fields_compared |-> found.fields_compared,
           record_mismatches |-> found.record_mismatches])

\* lines 312-580: the rules on one matched row, then its classification.
\* pair_log keeps the locals of the iteration.
Both ==
    /\ InLoop
    /\ row["_merge"] = "both"
    /\ Classify(record_id,
                compare_row(row, record_id, cols_to_compare_mapping,
                            cols_to_compare_sum, cols_to_compare_categorical,
                            SKIP_ZERO_VALUES))
    /\ idx' = idx + 1
    /\ UNCHANGED <<inputs, pc, merged_df, matched_df, missing_in_cama,
                   missing_in_mls, call, session>>

\* lines 582-596: the lists become the returned frames
Return ==
    /\ pc = "loop"
    /\ idx > Len(merged_df)
    /\ pc' = "done"
    /\ UNCHANGED <<inputs, merged_df, matched_df, idx, missing_in_cama,
                   missing_in_mls, value_mismatches, perfect_matches, pair_log, call, session>>

\* line 596: the returned tables
Result ==
    <<missing_in_cama, missing_in_mls, value_mismatches, matched_df, perfect_matches>>

\* a second call with the same arguments, after a call has returned; the
\* locals of lines 285-291 are new
CallAgain ==
    /\ pc \in {"done", "rejected"}
    /\ ~first_result.done
    /\ first_result' = Returned(Result)
    /\ pc' = "start"
    /\ merged_df' = <<>> /\ matched_df' = <<>> /\ idx' = 0
    /\ missing_in_cama' = <<>> /\ missing_in_mls' = <<>>
    /\ value_mismatches' = <<>> /\ perfect_matches' = <<>>
    /\ pair_log' = <<>>
    /\ UNCHANGED <<inputs, caller, duplicates, call>>

\* lines 803-811: the main block goes on only with both frames read and
\* both key columns present
MainRefuses(mls, cama, uid) ==
    IF ~IsFrame(mls) \/ ~IsFrame(cama) THEN TRUE
    ELSE IF "mls_col" \notin DOMAIN uid \/ "cama_col" \notin DOMAIN uid THEN TRUE
    ELSE uid.mls_col \notin mls.columns \/ uid.cama_col \notin cama.columns

\* lines 803-811: an error message, and nothing is compared
MainExit ==
    /\ pc = "main"
    /\ MainRefuses(df_mls, df_cama, unique_id_col)
    /\ pc' = "exit"
    /\ UNCHANGED <<inputs, merged_df, matched_df, idx, missing_in_cama,
                   missing_in_mls, value_mismatches, perfect_matches, pair_log,
                   call, session>>

\* the rows whose key is the key of another row too, keep='first' style:
\* without the first row of each key
find_later_duplicates(df, id_column) ==
    IF ~IsFrame(df) THEN <<>>
    ELSE IF df.rows = <<>> THEN <<>>
    ELSE IF id_column \notin df.columns THEN FAIL
    ELSE LET later == {i \in 1..Len(df.rows) :
                         \E j \in 1..(i - 1) : df.rows[j][id_column] = df.rows[i][id_column]}
         IN  [n \in 1..Cardinality(later) |->
                 df.rows[CHOOSE i \in later : Cardinality({j \in later : j < i}) = n - 1]]

\* lines 159-173: df[df.duplicated(subset=[id_column], keep=False)], empty
\* for no frame or an empty one; a column the frame does not have raises
\* KeyError
find_duplicate_ids(df, id_column) ==
    IF ~IsFrame(df) THEN <<>>
    ELSE IF df.rows = <<>> THEN <<>>
    ELSE IF id_column \notin df.columns THEN FAIL
    ELSE SelectSeq(df.rows,
                   LAMBDA r : Len(RowsWithKey(df.rows, id_column, r[id_column])) > 1)

\* lines 818-823: the duplicates of both frames, before the comparison
CheckDuplicates ==
    /\ pc = "main"
    /\ ~MainRefuses(df_mls, df_cama, unique_id_col)
    /\ duplicates' = Returned(<<find_duplicate_ids(df_mls, unique_id_col.mls_col),
                                find_duplicate_ids(df_cama, unique_id_col.cama_col)>>)
    /\ pc' = "start"
    /\ UNCHANGED <<inputs, merged_df, matched_df, idx, missing_in_cama,
                   missing_in_mls, value_mismatches, perfect_matches, pair_log,
                   caller, first_result, call>>

\* a direct caller looks for duplicates itself, with the same arguments as
\* the main block, before it compares
CallFindDuplicateIds ==
    /\ pc = "start"
    /\ caller = "direct"
    /\ ~duplicates.done /\ ~first_result.done
    /\ {"mls_col", "cama_col"} \subseteq DOMAIN unique_id_col
    /\ duplicates' = Returned(<<find_duplicate_ids(df_mls, unique_id_col.mls_col),
                                find_duplicate_ids(df_cama, unique_id_col.cama_col)>>)
    /\ UNCHANGED <<inputs, pc, merged_df, matched_df, idx, missing_in_cama,
                   missing_in_mls, value_mismatches, perfect_matches, pair_log,
                   caller, first_result, call>>

Next ==
    \/ MainExit \/ CheckDuplicates \/ CallFindDuplicateIds
    \/ Reject \/ Merge \/ LeftOnly \/ RightOnly \/ Both \/ Return
    \/ CallAgain

Spec == Init /\ [][Next]_vars

-----------------------------------------------------------------------------
(* One call of a helper function *)

FnCells ==
    {NULL, N(0), Num(1, 5), N(5), N(100), Num(10001, 0), Num(10002, 0),
     Txt(<<"5">>), Txt(<<>>), Txt(<<" ">>), Txt(Abc), Txt(AbcUpper)}

InitFn ==
    /\ \/ /\ fn \in {"values_equal", "calculate_difference"}
          /\ arg1 \in FnCells
          /\ arg2 \in FnCells
          /\ rule = NULL
       \/ /\ fn = "categorical_match"
          /\ arg1 \in CoolingCells
          /\ arg2 \in HeatCells
          /\ rule \in CoolingRules
    /\ out = NoCall
    /\ df_mls = NoFrame /\ df_cama = NoFrame
    /\ unique_id_col = UNIQUE_ID_COLUMN
    /\ cols_to_compare_mapping = COLUMNS_TO_COMPARE
    /\ cols_to_compare_sum = COLUMNS_TO_COMPARE_SUM
    /\ cols_to_compare_categorical = COLUMNS_TO_COMPARE_CATEGORICAL
    /\ SKIP_ZERO_VALUES = TRUE
    /\ pc = "idle"
    /\ caller = "direct" /\ duplicates = NoCall /\ first_result = NoCall
    /\ merged_df = <<>> /\ matched_df = <<>> /\ idx = 0
    /\ missing_in_cama = <<>> /\ missing_in_mls = <<>>
    /\ value_mismatches = <<>> /\ perfect_matches = <<>> /\ pair_log = <<>>

engine == <<inputs, pc, merged_df, matched_df, idx, missing_in_cama,
            missing_in_mls, value_mismatches, perfect_matches, pair_log, session>>

CallValuesEqual ==
    /\ fn = "values_equal" /\ ~out.done
    /\ out' = Returned(values_equal(arg1, arg2))
    /\ UNCHANGED <<engine, fn, arg1, arg2, rule>>

CallCalculateDifference ==
    /\ fn = "calculate_difference" /\ ~out.done
    /\ out' = Returned(calculate_difference(arg1, arg2))
    /\ UNCHANGED <<engine, fn, arg1, arg2, rule>>

CallCategoricalMatch ==
    /\ fn = "categorical_match" /\ ~out.done
    /\ out' = Returned(categorical_match(arg1, arg2, rule))
    /\ UNCHANGED <<engine, fn, arg1, arg2, rule>>

NextFn == CallValuesEqual \/ CallCalculateDifference \/ CallCategoricalMatch

SpecFn == InitFn /\ [][NextFn]_vars

-----------------------------------------------------------------------------
(* Properties *)

Ids(table) == {table[i].Parcel_ID : i \in 1..Len(table)}
Entries(table) == {table[i] : i \in 1..Len(table)}

\* the keys of the two input frames (of a run the setup guards let through)
MlsKeys == KeysOf(df_mls.rows, unique_id_col.mls_col)
CamaKeys == KeysOf(df_cama.rows, unique_id_col.cama_col)
RowsOfKey(df, col, k) == Cardinality({i \in 1..Len(df.rows) : df.rows[i][col] = k})

\* C1: in a run the setup guards let through, a key is reported in
\* missing_in_cama iff it occurs in the MLS frame and not in the CAMA frame,
\* in missing_in_mls iff it occurs in the CAMA frame and not in the MLS
\* frame, and has its rules evaluated iff it occurs in both; so no key is
\* dropped and no key is in two of the three classes.
C1_OuterJoinClasses ==
    pc = "done" =>
        /\ Ids(missing_in_cama) = MlsKeys \ CamaKeys
        /\ Ids(missing_in_mls) = CamaKeys \ MlsKeys
        /\ Ids(pair_log) = MlsKeys \cap CamaKeys
        /\ KeysOf(matched_df, unique_id_col.cama_col) = MlsKeys \cap CamaKeys

C1_Witness ==
    /\ pc = "done"
    /\ missing_in_cama # <<>>
    /\ missing_in_mls # <<>>
    /\ pair_log # <<>>

\* the five buckets of a key
InMissingInB(k) == k \in Ids(missing_in_cama)
InMissingInA(k) == k \in Ids(missing_in_mls)
InMismatched(k) == k \in Ids(value_mismatches)
InPerfectMatch(k) == k \in Ids(perfect_matches)
InSkipped(k) == \E e \in Entries(pair_log) : e.Parcel_ID = k /\ e.fields_compared = <<>>

Buckets(k) ==
    {b \in {"MissingInB", "MissingInA", "Mismatched", "PerfectMatch", "Skipped"} :
        \/ b = "MissingInB" /\ InMissingInB(k)
        \/ b = "MissingInA" /\ InMissingInA(k)
        \/ b = "Mismatched" /\ InMismatched(k)
        \/ b = "PerfectMatch" /\ InPerfectMatch(k)
        \/ b = "Skipped" /\ InSkipped(k)}

\* C2 as stated: after the run every key of either frame is in exactly one
\* bucket, also when a key occurs more than once on a side.
C2_OneBucketPerKey ==
    pc = "done" => \A k \in MlsKeys \cup CamaKeys : Cardinality(Buckets(k)) = 1

StatusCount(status) ==
    Cardinality({i \in 1..Len(merged_df) : merged_df[i]["_merge"] = status})

IsSkippedEntry(e) == e.fields_compared = <<>> /\ e.record_mismatches = <<>>
IsPerfectEntry(e) == e.fields_compared # <<>> /\ e.record_mismatches = <<>>
IsMismatchedEntry(e) == e.fields_compared # <<>> /\ e.record_mismatches # <<>>

UniqueKey(k) ==
    /\ RowsOfKey(df_mls, unique_id_col.mls_col, k) <= 1
    /\ RowsOfKey(df_cama, unique_id_col.cama_col, k) <= 1

\* C2 as amended: after the run every merged row (a row of one frame
\* without a partner, or one combination of two rows with the same key) is
\* in exactly one bucket, and so is every key that occurs at most once on
\* each side.
C2_OneBucketPerRow ==
    pc = "done" =>
        /\ Len(missing_in_cama) = StatusCount("left_only")
        /\ Len(missing_in_mls) = StatusCount("right_only")
        /\ Len(pair_log) = StatusCount("both")
        /\ \A e \in Entries(pair_log) :
              IsSkippedEntry(e) \/ IsPerfectEntry(e) \/ IsMismatchedEntry(e)
        /\ Len(perfect_matches)
              = Cardinality({i \in 1..Len(pair_log) : IsPerfectEntry(pair_log[i])})
        /\ value_mismatches = Concat([i \in 1..Len(pair_log) |-> pair_log[i].record_mismatches])
        /\ \A k \in MlsKeys \cup CamaKeys :
              UniqueKey(k) => Cardinality(Buckets(k)) = 1

C2_Witness ==
    /\ pc = "done"
    /\ \E k \in MlsKeys \cap CamaKeys : UniqueKey(k) /\ Buckets(k) = {"Mismatched"}
    /\ \E k \in CamaKeys : Buckets(k) = {"MissingInA"}

\* C10: when the key mapping lacks a name, or a key column is not a column
\* of its frame, the call returns early: no row is merged, no rule is
\* evaluated and the five returned tables are empty.
\* compare_data_enhanced has been called and has passed or left its
\* setup guards
Entered == pc \in {"rejected", "raised", "loop", "done"}

KeyFieldAbsent ==
    IF ~({"mls_col", "cama_col"} \subseteq DOMAIN unique_id_col) THEN TRUE
    ELSE \/ IsFrame(df_mls) /\ unique_id_col.mls_col \notin df_mls.columns
         \/ IsFrame(df_cama) /\ unique_id_col.cama_col \notin df_cama.columns

\* C10: when the key mapping lacks a name, or a frame lacks its key column,
\* the run ends at the setup guards: the merge and the loop are never
\* entered and all the result tables are empty.
C10_KeyAbsentRejected ==
    (Entered /\ KeyFieldAbsent) =>
        /\ pc = "rejected"
        /\ merged_df = <<>> /\ pair_log = <<>>
        /\ missing_in_cama = <<>> /\ missing_in_mls = <<>>
        /\ value_mismatches = <<>> /\ matched_df = <<>> /\ perfect_matches = <<>>

C10_Witness ==
    /\ pc = "rejected"
    /\ IsFrame(df_mls) /\ IsFrame(df_cama)
    /\ cols_to_compare_mapping # <<>>
    /\ {"mls_col", "cama_col"} \subseteq DOMAIN unique_id_col
    /\ unique_id_col.mls_col \in df_mls.columns
    /\ unique_id_col.cama_col \notin df_cama.columns
    /\ df_cama.rows # <<>>

\* the entry of pair_log the step has just added
NewEntry == pair_log'[Len(pair_log')]

\* the discrepancy rows each rule yields on its own, in the order of the
\* configuration
OwnRows(entry) ==
    Concat([i \in 1..Len(cols_to_compare_mapping) |->
               direct_rule(entry.row, entry.Parcel_ID, cols_to_compare_mapping[i],
                           SKIP_ZERO_VALUES, NoFindings).record_mismatches])
    \o Concat([i \in 1..Len(cols_to_compare_sum) |->
               sum_rule(entry.row, entry.Parcel_ID, cols_to_compare_sum[i],
                        SKIP_ZERO_VALUES, NoFindings).record_mismatches])
    \o Concat([i \in 1..Len(cols_to_compare_categorical) |->
               categorical_rule(entry.row, entry.Parcel_ID,
                                cols_to_compare_categorical[i],
                                NoFindings).record_mismatches])

\* C3: the step that handles a matched row adds nothing to either table
\* when no field was compared; adds exactly one perfect_matches row, with
\* Fields_Compared the number of compared fields, when fields were compared
\* and none differs; and otherwise adds exactly the discrepancy rows of the
\* row, one for each rule that fails, and no perfect_matches row.
C3_Classified ==
    [][(pc = "loop" /\ Len(pair_log') = Len(pair_log) + 1) =>
          /\ NewEntry.record_mismatches = OwnRows(NewEntry)
          /\ Len(NewEntry.fields_compared) = 0 =>
                /\ value_mismatches' = value_mismatches
                /\ perfect_matches' = perfect_matches
          /\ (Len(NewEntry.fields_compared) > 0 /\ NewEntry.record_mismatches = <<>>) =>
                /\ value_mismatches' = value_mismatches
                /\ Len(perfect_matches') = Len(perfect_matches) + 1
                /\ SubSeq(perfect_matches', 1, Len(perfect_matches)) = perfect_matches
                /\ perfect_matches'[Len(perfect_matches')].Parcel_ID = NewEntry.Parcel_ID
                /\ perfect_matches'[Len(perfect_matches')].Fields_Compared
                      = Len(NewEntry.fields_compared)
          /\ NewEntry.record_mismatches # <<>> =>
                /\ value_mismatches' = value_mismatches \o NewEntry.record_mismatches
                /\ perfect_matches' = perfect_matches
      ]_vars

C3_Witness ==
    /\ \E e \in Entries(pair_log) : Len(e.record_mismatches) = 3
    /\ Len(value_mismatches) = 3
    /\ perfect_matches = <<>>

\* the 1-to-1 mappings an entry's row has both columns of
DirectMappings(e) ==
    {m \in Entries(cols_to_compare_mapping) :
        m.mls_col \in DOMAIN e.row /\ m.cama_col \in DOMAIN e.row}

InList(x, list) == \E i \in 1..Len(list) : list[i] = x

\* the discrepancy rows of an entry for one pair of fields
RowsFor(e, field_mls, field_cama) ==
    {d \in Entries(e.record_mismatches) :
        d.Field_MLS = field_mls /\ d.Field_CAMA = field_cama}

\* a cell whose number is exactly 0
NumericZero(v) == to_numeric_coerce(v) = N(0)

\* C4: a field of a 1-to-1 rule is in the compared-field list of a matched
\* pair only if neither value is blank and, with skip-zero enabled, neither
\* value is the number 0; so a pair whose rules are all blank or
\* zero-suppressed is in neither table.
C4_ZeroNotCompared ==
    \A e \in Entries(pair_log) :
        /\ \A m \in DirectMappings(e) :
              InList(m.mls_col, e.fields_compared) =>
                  /\ ~is_blank(e.row[m.mls_col]) /\ ~is_blank(e.row[m.cama_col])
                  /\ SKIP_ZERO_VALUES =>
                        /\ ~NumericZero(e.row[m.mls_col])
                        /\ ~NumericZero(e.row[m.cama_col])
        /\ (/\ SKIP_ZERO_VALUES
            /\ e.row["Above Grade Finished Area"] = N(0)
            /\ e.row["SFLA"] = N(5)
            /\ \A c \in (DOMAIN e.row) \ {"PARID", "_merge", "Above Grade Finished Area", "SFLA"} :
                  e.row[c] = NULL)
           => /\ e.Parcel_ID \notin Ids(perfect_matches)
              /\ e.Parcel_ID \notin Ids(value_mismatches)

\* C5: for a 1-to-1 rule on a matched pair whose two values are not blank
\* and not zero-suppressed, a discrepancy row is emitted iff values_equal
\* judges the values unequal; the row carries both raw values, and as
\* Difference a - b with two decimals when both are numbers, "Text
\* difference" when a numeric conversion fails.  With skip-zero disabled,
\* 0 against 5 gives "-5.00".
C5_DirectDiscrepancy ==
    \A e \in Entries(pair_log) : \A m \in DirectMappings(e) :
        (/\ ~is_blank(e.row[m.mls_col]) /\ ~is_blank(e.row[m.cama_col])
         /\ ~direct_zero_skip(SKIP_ZERO_VALUES, e.row[m.mls_col], e.row[m.cama_col]))
        => /\ (RowsFor(e, m.mls_col, m.cama_col) # {})
                 <=> ~values_equal(e.row[m.mls_col], e.row[m.cama_col])
           /\ Cardinality({i \in 1..Len(e.record_mismatches) :
                             e.record_mismatches[i].Field_MLS = m.mls_col}) <= 1
           /\ \A d \in RowsFor(e, m.mls_col, m.cama_col) :
                 /\ d.MLS_Value = e.row[m.mls_col]
                 /\ d.CAMA_Value = e.row[m.cama_col]
                 /\ (IsNum(to_numeric_raise(d.MLS_Value)) /\ IsNum(to_numeric_raise(d.CAMA_Value)))
                       => d.Difference
                             = Txt(Format2f(Sub(to_numeric_raise(d.MLS_Value),
                                                to_numeric_raise(d.CAMA_Value))))
                 /\ (to_numeric_raise(d.MLS_Value) = FAIL \/ to_numeric_raise(d.CAMA_Value) = FAIL)
                       => d.Difference = Txt(TextDifference)
                 /\ (d.MLS_Value = N(0) /\ d.CAMA_Value = N(5))
                       => d.Difference = Txt(<<"-", "5", ".", "0", "0">>)
           /\ (e.row[m.mls_col] = N(0) /\ e.row[m.cama_col] = N(5))
                 => RowsFor(e, m.mls_col, m.cama_col) # {}

C5_Witness ==
    /\ ~SKIP_ZERO_VALUES
    /\ \E e \in Entries(pair_log) :
          /\ e.row["Above Grade Finished Area"] = N(0)
          /\ e.row["SFLA"] = N(5)
          /\ \E d \in RowsFor(e, "Above Grade Finished Area", "SFLA") :
                d.Difference = Txt(<<"-", "5", ".", "0", "0">>)

\* the sum mappings an entry's row has every column of
SumMappings(e) ==
    {m \in Entries(cols_to_compare_sum) :
        /\ m.mls_col \in DOMAIN e.row
        /\ \A i \in 1..Len(m.cama_cols) : m.cama_cols[i] \in DOMAIN e.row}

SumField(m) == "SUM(" \o join(", ", m.cama_cols) \o ")"

\* the cells of the side-B fields of a sum mapping
SumSide(e, m) == [i \in 1..Len(m.cama_cols) |-> e.row[m.cama_cols[i]]]

RECURSIVE NullAsZeroSum(_)
\* the sum of numeric cells, a null cell counted as 0
NullAsZeroSum(cells) ==
    IF cells = <<>> THEN N(0)
    ELSE Add(IF IsNull(Head(cells)) THEN N(0) ELSE Head(cells),
             NullAsZeroSum(Tail(cells)))

\* a side-A number against side-B cells that are numbers or null
NumericSum(a, cells) ==
    /\ IsNum(a)
    /\ \A i \in 1..Len(cells) : IsNull(cells[i]) \/ IsNum(cells[i])

AllNull(cells) == \A i \in 1..Len(cells) : IsNull(cells[i])

Example500 == <<N(200), N(150), NULL>>

\* what a sum rule leaves in the entry of a pair, given whether the
\* comparison is suppressed
SumOutcome(e, m, a, cells, sum, suppressed) ==
    NumericSum(a, cells) =>
        /\ AllNull(cells) =>
              /\ ~InList(m.mls_col, e.fields_compared)
              /\ RowsFor(e, m.mls_col, SumField(m)) = {}
        /\ ~AllNull(cells) =>
              /\ (RowsFor(e, m.mls_col, SumField(m)) # {})
                    <=> (~suppressed /\ ~values_equal(a, sum))
              /\ Cardinality({i \in 1..Len(e.record_mismatches) :
                                e.record_mismatches[i].Field_MLS = m.mls_col}) <= 1
              /\ \A d \in RowsFor(e, m.mls_col, SumField(m)) :
                    /\ d.MLS_Value = a
                    /\ d.CAMA_Value = sum
                    /\ d.Difference = Txt(Format2f(Sub(a, sum)))
        /\ (a = N(500) /\ cells = Example500) =>
              \E d \in RowsFor(e, m.mls_col, SumField(m)) :
                  /\ d.CAMA_Value = N(350)
                  /\ d.Difference = Txt(<<"1", "5", "0", ".", "0", "0">>)

SumSuppressed(a, sum) == SKIP_ZERO_VALUES /\ (IsZero(a) \/ IsZero(sum))

\* C6 as stated: for a sum rule on a matched pair with a side-A number and
\* side-B cells that are numbers or null, the rule is skipped when every
\* side-B cell is null; otherwise one discrepancy is emitted iff the side-A
\* value differs from the sum with nulls counted as 0, its side-B value
\* the sum and its Difference A minus the sum.
C6_SumAsStated ==
    \A e \in Entries(pair_log) : \A m \in SumMappings(e) :
        SumOutcome(e, m, e.row[m.mls_col], SumSide(e, m),
                   NullAsZeroSum(SumSide(e, m)), FALSE)

\* C6: for a sum rule on a matched pair with a side-A number and side-B
\* cells that are numbers or null, the rule is skipped when every side-B
\* cell is null; otherwise the field is compared, and one discrepancy is
\* emitted iff the comparison is not zero-suppressed (skip-zero enabled and
\* the side-A value or the sum is 0) and the side-A value differs from the
\* sum with nulls counted as 0; its side-B value is the sum and its
\* Difference is A minus the sum (500 against [200, 150, null] gives 350
\* and "150.00").
C6_SumRule ==
    \A e \in Entries(pair_log) : \A m \in SumMappings(e) :
        /\ SumOutcome(e, m, e.row[m.mls_col], SumSide(e, m),
                      NullAsZeroSum(SumSide(e, m)),
                      SumSuppressed(e.row[m.mls_col], NullAsZeroSum(SumSide(e, m))))
        /\ (NumericSum(e.row[m.mls_col], SumSide(e, m)) /\ ~AllNull(SumSide(e, m)))
              => InList(m.mls_col, e.fields_compared)

C6_Witness ==
    \E e \in Entries(pair_log) : \E m \in SumMappings(e) :
        /\ e.row[m.mls_col] = N(500)
        /\ SumSide(e, m) = Example500
        /\ \E d \in Entries(value_mismatches) :
              /\ d.Field_CAMA = SumField(m)
              /\ d.CAMA_Value = N(350)

\* the categorical mappings an entry's row has both columns of
CategoricalMappings(e) ==
    {m \in Entries(cols_to_compare_categorical) :
        m.mls_col \in DOMAIN e.row /\ m.cama_col \in DOMAIN e.row}

CentralAirAndHeatPump ==
    <<"C","e","n","t","r","a","l"," ","A","i","r"," ","a","n","d"," ",
      "H","e","a","t"," ","P","u","m","p">>

\* what a categorical rule leaves in the entry of a pair
CategoricalOutcome(e, m, a, b, expected) ==
    (~is_blank(a) /\ ~is_blank(b)) =>
        /\ (RowsFor(e, m.mls_col, m.cama_col) # {}) <=> ~values_equal(b, expected)
        /\ \A d \in RowsFor(e, m.mls_col, m.cama_col) :
              d.Expected_CAMA_Value = expected
        /\ (/\ a = Txt(CentralAirAndHeatPump)
            /\ m.mls_check_contains = CentralAir
            /\ m.cama_expected_if_true = N(1)
            /\ b = N(0))
           => \E d \in RowsFor(e, m.mls_col, m.cama_col) :
                  d.Expected_CAMA_Value = N(1)

\* C7: for a categorical rule on a matched pair with both fields
\* non-blank, with found = the marker is a substring of the trimmed side-A
\* text (both lower-cased unless case-sensitive) and expected = the value
\* for found or for not found, a discrepancy is emitted iff the side-B
\* value is not equal to expected, and it records expected; "Central Air
\* and Heat Pump" with marker "Central Air" and side-B 0 gives a
\* discrepancy with expected value 1.
C7_CategoricalRule ==
    \A e \in Entries(pair_log) : \A m \in CategoricalMappings(e) :
        CategoricalOutcome(e, m, e.row[m.mls_col], e.row[m.cama_col],
                           expected_cama(e.row[m.mls_col], m))

ValuesEqualReturned == fn = "values_equal" /\ out.done

\* C8: values_equal(x, x) is true for every scalar x, and
\* values_equal(a, b) = values_equal(b, a) for every pair.
C8_ReflexiveSymmetric ==
    ValuesEqualReturned =>
        /\ arg1 = arg2 => out.val
        /\ out.val = values_equal(arg2, arg1)

BothReal(a, b) == IsNum(to_numeric_raise(a)) /\ IsNum(to_numeric_raise(b))

Max(x, y) == IF x >= y THEN x ELSE y

\* |a - b| <= tolerance + relativeEpsilon * max(|a|, |b|)
WithinMax(a, b) ==
    Within(AbsDiff(a, b), Max(RelativeTerm(a), RelativeTerm(b)))

\* C9: when both arguments coerce to real numbers, values_equal(a, b) is
\* true iff |a - b| <= 0.01 + 1e-9 * max(|a|, |b|); values_equal(100.00,
\* 100.01) is true and values_equal(100.00, 100.02) is false.
C9_ToleranceFormula ==
    (ValuesEqualReturned /\ BothReal(arg1, arg2)) =>
        /\ out.val <=> WithinMax(to_numeric_raise(arg1), to_numeric_raise(arg2))
        /\ (arg1 = N(100) /\ arg2 = Num(10001, 0)) => out.val
        /\ (arg1 = N(100) /\ arg2 = Num(10002, 0)) => ~out.val

\* no rule of any of the three kinds is configured
RuleSetEmpty ==
    /\ cols_to_compare_mapping = <<>>
    /\ cols_to_compare_sum = <<>>
    /\ cols_to_compare_categorical = <<>>

\* both frames are given and carry their key columns
DatasetsUsable == IsFrame(df_mls) /\ IsFrame(df_cama) /\ ~KeyFieldAbsent

TablesEmpty ==
    /\ missing_in_cama = <<>> /\ missing_in_mls = <<>>
    /\ value_mismatches = <<>> /\ matched_df = <<>> /\ perfect_matches = <<>>

\* C11: the run is aborted with all tables empty when no direct, sum or
\* categorical rule is configured, and a configuration with at least one
\* rule of any of the three kinds (on usable datasets) is not aborted: it
\* is merged and its rows are processed.
C11_EmptyRuleSetOnly ==
    Entered =>
        /\ RuleSetEmpty => (pc = "rejected" /\ TablesEmpty)
        /\ (~RuleSetEmpty /\ DatasetsUsable) => pc # "rejected"

\* the columns a rule reads
RuleColumns(m) ==
    {m.mls_col} \cup (IF "cama_cols" \in DOMAIN m
                      THEN {m.cama_cols[i] : i \in 1..Len(m.cama_cols)}
                      ELSE {m.cama_col})

\* the rules of a list whose columns are all in the row's schema
PresentRules(mappings, schema) ==
    SelectSeq(mappings, LAMBDA m : RuleColumns(m) \subseteq schema)

AllRules ==
    Entries(cols_to_compare_mapping) \cup Entries(cols_to_compare_sum)
    \cup Entries(cols_to_compare_categorical)

\* the locals of a matched row when only the rules with all their columns
\* present are evaluated
PresentFindings(e) ==
    compare_row(e.row, e.Parcel_ID,
                PresentRules(cols_to_compare_mapping, DOMAIN e.row),
                PresentRules(cols_to_compare_sum, DOMAIN e.row),
                PresentRules(cols_to_compare_categorical, DOMAIN e.row),
                SKIP_ZERO_VALUES)

\* C12: a rule that reads a column absent from the merged schema leaves no
\* trace on any matched row (its field is not compared and it emits no
\* discrepancy; one absent side-B column of a sum rule is enough), the run
\* is never aborted by it, and every matched row is classified from the
\* other rules exactly as if the rule were not configured.
C12_AbsentColumnSkipped ==
    /\ pc # "raised"
    /\ pc = "done" => Len(pair_log) = StatusCount("both")
    /\ \A e \in Entries(pair_log) :
          /\ \A m \in AllRules :
                ~(RuleColumns(m) \subseteq DOMAIN e.row) =>
                    /\ ~InList(m.mls_col, e.fields_compared)
                    /\ \A d \in Entries(e.record_mismatches) : d.Field_MLS # m.mls_col
          /\ e.fields_compared = PresentFindings(e).fields_compared
          /\ e.record_mismatches = PresentFindings(e).record_mismatches

C12_Witness ==
    /\ pc = "done"
    /\ \E e \in Entries(pair_log) :
          /\ "FINBSMTAREA" \notin DOMAIN e.row
          /\ "RECROMAREA" \in DOMAIN e.row
          /\ "RMBED" \notin DOMAIN e.row
          /\ e.fields_compared = <<"Above Grade Finished Area", "Cooling">>
          /\ Len(e.record_mismatches) = 2
    /\ Len(value_mismatches) = 2

\* the keys of a table or of the rows of a frame, in row order
IdSeq(table) == [i \in 1..Len(table) |-> table[i].Parcel_ID]
KeySeq(rows, col) == [i \in 1..Len(rows) |-> rows[i][col]]

\* the rows of the merge with one indicator, in merge order
RowsWithStatus(status) == SelectSeq(merged_df, LAMBDA r : r["_merge"] = status)

\* the rules in evaluation order
RuleOrder ==
    [i \in 1..Len(cols_to_compare_mapping) |-> cols_to_compare_mapping[i].mls_col]
    \o [i \in 1..Len(cols_to_compare_sum) |-> cols_to_compare_sum[i].mls_col]
    \o [i \in 1..Len(cols_to_compare_categorical) |-> cols_to_compare_categorical[i].mls_col]

RuleIndex(field) == CHOOSE i \in 1..Len(RuleOrder) : RuleOrder[i] = field

\* within a pair the discrepancy rows are in rule evaluation order
InRuleOrder(rows) ==
    \A i \in 1..Len(rows) : \A j \in 1..Len(rows) :
        i < j => RuleIndex(rows[i].Field_MLS) < RuleIndex(rows[j].Field_MLS)

\* within each pair: contiguous rows, in rule order
PairRowsInOrder ==
    /\ value_mismatches = Concat([i \in 1..Len(pair_log) |-> pair_log[i].record_mismatches])
    /\ \A e \in Entries(pair_log) : InRuleOrder(e.record_mismatches)

Ascending(keys) ==
    \A i \in 1..Len(keys) : \A j \in 1..Len(keys) :
        i < j => (keys[i] = keys[j] \/ KeyLess(keys[i], keys[j]))

\* the key of every side-A row in order, once for each side-B row with
\* that key
SideAOrder ==
    Concat([i \in 1..Len(df_mls.rows) |->
              [j \in 1..RowsOfKey(df_cama, unique_id_col.cama_col,
                                  df_mls.rows[i][unique_id_col.mls_col]) |->
                  df_mls.rows[i][unique_id_col.mls_col]]])

SecondReturned == first_result.done /\ pc \in {"done", "rejected"}

\* C14: a second call of compare_data_enhanced on the same datasets and
\* configuration returns tables identical to those of the first call (same
\* rows, same order, same values), and no step of a call modifies the
\* datasets or the configuration.
C14_SecondCallSame ==
    /\ [](SecondReturned => Result = first_result.val)
    /\ [][inputs' = inputs]_vars

C14_Witness ==
    /\ SecondReturned
    /\ pc = "done"
    /\ missing_in_mls # <<>>
    /\ value_mismatches # <<>>
    /\ Result = first_result.val

\* the matched rows of key k, in table order
PairsOf(k) == SelectSeq(pair_log, LAMBDA e : e.Parcel_ID = k)

\* the rows of key k in each dataset, in dataset order
SideARows(k) == SelectSeq(df_mls.rows, LAMBDA r : r[unique_id_col.mls_col] = k)
SideBRows(k) == SelectSeq(df_cama.rows, LAMBDA r : r[unique_id_col.cama_col] = k)

\* the two rows a matched row was joined from
SideA(e) ==
    [c \in df_mls.columns |->
        IF c = unique_id_col.mls_col THEN e.row[unique_id_col.cama_col] ELSE e.row[c]]
SideB(e) == [c \in df_cama.columns |-> e.row[c]]

CountOf(table, k) == Cardinality({i \in 1..Len(table) : table[i].Parcel_ID = k})

\* the matched rows of a key are its combinations, side-A major
Combinations(pairs, as, bs) ==
    /\ Len(pairs) = Len(as) * Len(bs)
    /\ [i \in 1..Len(pairs) |-> SideA(pairs[i])]
          = Concat([i \in 1..Len(as) |-> [j \in 1..Len(bs) |-> as[i]]])
    /\ [i \in 1..Len(pairs) |-> SideB(pairs[i])]
          = Concat([i \in 1..Len(as) |-> bs])

\* C15: a key that occurs m times in the MLS frame and n times in the CAMA
\* frame has exactly m*n matched rows, one for each combination of a row of
\* one side with a row of the other, each with its own classification; a
\* key that occurs m times in the MLS frame only has m missing_in_cama
\* rows (and likewise n missing_in_mls rows for the CAMA frame only).
C15_EveryCombination ==
    pc = "done" =>
        \A k \in MlsKeys \cup CamaKeys :
            /\ Combinations(PairsOf(k), SideARows(k), SideBRows(k))
            /\ CountOf(missing_in_cama, k)
                  = IF SideBRows(k) = <<>> THEN Len(SideARows(k)) ELSE 0
            /\ CountOf(missing_in_mls, k)
                  = IF SideARows(k) = <<>> THEN Len(SideBRows(k)) ELSE 0
            /\ Cardinality({i \in 1..Len(matched_df) :
                              matched_df[i][unique_id_col.cama_col] = k})
                  = Len(SideARows(k)) * Len(SideBRows(k))
            /\ \A i \in 1..Len(PairsOf(k)) :
                  IsSkippedEntry(PairsOf(k)[i]) \/ IsPerfectEntry(PairsOf(k)[i])
                  \/ IsMismatchedEntry(PairsOf(k)[i])
            /\ CountOf(perfect_matches, k)
                  = Cardinality({i \in 1..Len(PairsOf(k)) : IsPerfectEntry(PairsOf(k)[i])})

C15_Witness ==
    /\ pc = "done"
    /\ \E k \in MlsKeys :
          /\ Len(SideARows(k)) = 2
          /\ Len(SideBRows(k)) = 2
          /\ Len(PairsOf(k)) = 4
          /\ CountOf(perfect_matches, k) = 2
          /\ CountOf(value_mismatches, k) = 2

\* the records of a frame whose key is the key of another record too, in
\* frame order
SharedKeyRows(df, col) ==
    SelectSeq(df.rows,
              LAMBDA r : \E i \in 1..Len(df.rows) : \E j \in 1..Len(df.rows) :
                            /\ i # j
                            /\ df.rows[i][col] = r[col]
                            /\ df.rows[j][col] = r[col])

\* what find_duplicate_ids returns for one frame
DuplicatesExact(df, col, found) ==
    IF ~IsFrame(df) THEN found = <<>>
    ELSE IF df.rows = <<>> THEN found = <<>>
    ELSE col \in df.columns => found = SharedKeyRows(df, col)

\* C16: find_duplicate_ids returns exactly the records whose key value is
\* shared by at least two records of the frame (all of each group, no
\* record with a key of its own) and nothing for a missing or empty
\* frame; the main block runs it before the merge; its result stays what
\* it was whatever the comparison does, and the step that computes it
\* leaves the datasets, the configuration and the tables of the comparison
\* unchanged.
C16_DuplicatesBeforeMerge ==
    /\ [](duplicates.done =>
            /\ DuplicatesExact(df_mls, unique_id_col.mls_col, duplicates.val[1])
            /\ DuplicatesExact(df_cama, unique_id_col.cama_col, duplicates.val[2]))
    /\ []((caller = "main" /\ pc \notin {"main", "exit"}) => duplicates.done)
    /\ [][duplicates.done => duplicates' = duplicates]_vars
    /\ [][duplicates' # duplicates =>
             /\ inputs' = inputs
             /\ Result' = Result
             /\ pair_log' = pair_log /\ merged_df' = merged_df]_vars

C16_Witness ==
    /\ caller = "main"
    /\ pc = "done"
    /\ duplicates.done
    /\ Len(df_mls.rows) = 2 /\ duplicates.val[1] = <<>>
    /\ Len(duplicates.val[2]) = 2
    /\ value_mismatches # <<>>

RECURSIVE BlankAsZeroSum(_)
\* the sum of the cells, a blank cell counted as 0
BlankAsZeroSum(cells) ==
    IF cells = <<>> THEN N(0)
    ELSE AddCell(IF is_blank(Head(cells)) THEN N(0) ELSE to_numeric_coerce(Head(cells)),
                 BlankAsZeroSum(Tail(cells)))

AllBlank(cells) == \A i \in 1..Len(cells) : is_blank(cells[i])

NumberOrBlank(cells) == \A i \in 1..Len(cells) : is_blank(cells[i]) \/ IsNum(cells[i])

\* what a sum rule leaves in the entry of a pair when blank side-B cells
\* count as 0
BlankSumOutcome(e, m, a, cells) ==
    ~is_blank(a) =>
        /\ AllBlank(cells) =>
              /\ ~InList(m.mls_col, e.fields_compared)
              /\ RowsFor(e, m.mls_col, SumField(m)) = {}
        /\ \A d \in RowsFor(e, m.mls_col, SumField(m)) :
              /\ NumberOrBlank(cells) => IsNum(d.CAMA_Value)
              /\ NumberOrBlank(cells) => d.CAMA_Value = BlankAsZeroSum(cells)

\* C17: in a sum rule a side-B cell that is blank (null, or a string that
\* is empty after trimming) adds 0 to the sum, the rule is skipped when
\* every side-B cell is blank, and so the sum of a rule that is not
\* skipped is a number, never NaN.
C17_BlankCountsZero ==
    \A e \in Entries(pair_log) : \A m \in SumMappings(e) :
        BlankSumOutcome(e, m, e.row[m.mls_col], SumSide(e, m))

CategoricalMatchReturned == fn = "categorical_match" /\ out.done

\* numeric conversion of the value fails
CoercionFails(v) == to_numeric_raise(v) = FAIL

\* str(v).strip().lower()
RawFolded(v) == lower(strip(str(v)))

\* the result when the conversion of the side-B value or of the expected
\* value fails
FallbackResult(val, cama_val, expected) ==
    (CoercionFails(cama_val) \/ CoercionFails(expected)) =>
        (val <=> RawFolded(cama_val) = RawFolded(expected))

\* C18: when the numeric conversion of the side-B value or of the expected
\* value fails, categorical_match returns the case-insensitive equality of
\* the two values as strings: two different texts ("Yes" against "No") do
\* not match, equal texts do.
C18_StringFallback ==
    CategoricalMatchReturned =>
        FallbackResult(out.val, arg2, expected_cama(arg1, rule))

\* the value converts, to not-a-number
NotANumber(v) == to_numeric_raise(v) = NULL

\* a value as a trimmed, case-folded string; a null has the empty string
TrimFold(v) == IF IsNull(v) THEN <<>> ELSE lower(strip(str(v)))

NonRealOutcome(val, a, b) ==
    /\ val \in BOOLEAN
    /\ (CoercionFails(a) \/ CoercionFails(b)) =>
          (val <=> TrimFold(a) = TrimFold(b))
    /\ (~CoercionFails(a) /\ ~CoercionFails(b)) =>
          /\ (NotANumber(a) /\ NotANumber(b)) => val
          /\ (NotANumber(a) # NotANumber(b)) => ~val
    /\ (IsNum(a) /\ CoercionFails(b)) => ~val
    /\ (CoercionFails(a) /\ IsNum(b)) => ~val

\* C19: values_equal on non-real inputs: two values that both convert to
\* not-a-number are equal; when exactly one does they are unequal; when the
\* conversion of either value fails the result is the equality of the two
\* values as trimmed, case-folded strings, so a number never equals a
\* non-numeric text; the result is always a boolean, never an error.
C19_NonRealInputs ==
    ValuesEqualReturned => NonRealOutcome(out.val, arg1, arg2)

\* "ABC " against "abc" has been compared, and found equal
C19_Witness ==
    /\ ValuesEqualReturned
    /\ arg1 = Txt(AbcUpper) /\ arg2 = Txt(Abc)
    /\ out.val = TRUE

\* the side-B field name a rule writes in its discrepancy row
RuleField(m) == IF "cama_cols" \in DOMAIN m THEN SumField(m) ELSE m.cama_col

\* the positions of the discrepancy rows of an entry that a rule emitted
RowsOfRule(e, m) ==
    {i \in 1..Len(e.record_mismatches) :
        /\ e.record_mismatches[i].Field_MLS = m.mls_col
        /\ e.record_mismatches[i].Field_CAMA = RuleField(m)}

RuleCount ==
    Len(cols_to_compare_mapping) + Len(cols_to_compare_sum)
    + Len(cols_to_compare_categorical)

PairBounded(e) ==
    /\ \A m \in AllRules : Cardinality(RowsOfRule(e, m)) <= 1
    /\ \A i \in 1..Len(e.record_mismatches) :
          /\ InList(e.record_mismatches[i].Field_MLS, e.fields_compared)
          /\ \E m \in AllRules : i \in RowsOfRule(e, m)
    /\ Len(e.record_mismatches) <= Len(e.fields_compared)
    /\ Len(e.fields_compared) <= RuleCount

KeyInBoth(table) ==
    \A r \in Entries(table) :
        r.Parcel_ID \in MlsKeys /\ r.Parcel_ID \in CamaKeys

\* C20: for every matched pair each rule emits at most one discrepancy row,
\* every discrepancy row names a field of the pair's compared-field list,
\* the discrepancy rows of a pair are no more than its compared fields and
\* these no more than the configured rules; every row of the mismatches
\* and of the perfect matches has a key present in both datasets.
C20_PairBounded ==
    /\ \A e \in Entries(pair_log) : PairBounded(e)
    /\ KeyInBoth(value_mismatches)
    /\ KeyInBoth(perfect_matches)

\* a completed run in which a pair has two discrepancy rows and more
\* compared fields than discrepancies
C20_Witness ==
    /\ pc = "done"
    /\ Len(value_mismatches) >= 2
    /\ \E e \in Entries(pair_log) :
          /\ Len(e.record_mismatches) >= 2
          /\ Len(e.fields_compared) > Len(e.record_mismatches)

====
